---- MODULE Spec2Model ----
(***************************************************************************)
(* Conway's Game of Life on an entity store (src/game_of_life/mod.rs).     *)
(* The world holds one entity per spawned cell (Position, State,           *)
(* Neighbors), the Grid bounds, the CellPositions lookup map, the          *)
(* CellsChanged flag and the Generations resource.  A run spawns the       *)
(* cells and then runs the chained schedule                                *)
(*   rebuild_cell_positions, update_neighbors_brute_force_system,          *)
(*   update_cells_system, rebuild_cell_positions,                          *)
(*   update_neighbors_brute_force_system                                   *)
(* once per generation.                                                    *)
(***************************************************************************)
EXTENDS Integers, Sequences, FiniteSets, TLC

\* Largest area (width * height) of a grid whose seed is drawn freely.
MaxCells == 9
\* Largest area of a freely seeded grid in the runs checked for termination.
MaxFairCells == 6
\* Largest area of a grid in the runs whose count pass is interleaved per cell.
MaxParCells == 4
\* Largest number of generations of a run.
MaxGen == 2

VARIABLES
    seed,            \* the run's input: which spawner, its width, height, live set
    grid,            \* Grid resource: [width, height]
    cells,           \* the entities in query order: [position, state, neighbors]
    cell_positions,  \* CellPositions.map: (x, y) -> bool, a partial map
    cells_changed,   \* CellsChanged.0
    generations,     \* Generations.0, the loop's upper bound
    iter,            \* number of completed schedule.run calls of the loop
    pc,              \* the next step of the run
    ran,             \* how often each system has been called so far
    tasks            \* the per-cell closures of a count pass in flight: [dx, count]

vars == <<seed, grid, cells, cell_positions, cells_changed, generations, iter, pc, ran,
          tasks>>

----------------------------------------------------------------------------
(* Spawning                                                                *)

\* Half the width of u32: width and height are u32, and so is their product.
U16 == 65536

\* The 32-bit product width * height as (carry beyond 32 bits, upper half, lower
\* half), from the 16-bit halves of the factors.
U32Product(width, height) ==
    LET a == width \div U16
        b == width % U16
        c == height \div U16
        d == height % U16
        mid == a * d + b * c + ((b * d) \div U16)
    IN  <<a * c + (mid \div U16), mid % U16, (b * d) % U16>>

\* width * height does not fit u32: a build with overflow checks panics here.
Overflows(width, height) == U32Product(width, height)[1] >= 1

\* let cells_to_spawn_count = width * height, as a build without overflow
\* checks computes it: the low 32 bits of the product.
cells_to_spawn_count(width, height) ==
    U32Product(width, height)[2] * U16 + U32Product(width, height)[3]

\* Position of the i-th spawned cell (i counts from 0): x = i % width, y = i / width.
PositionOf(i, width) == <<i % width, i \div width>>

\* Each spawner maps (0..width*height) to one CellBundle per index, in index
\* order, and spawns the batch; neighbors is Default (0).
spawn_cells(width, height) ==
    [k \in 1..cells_to_spawn_count(width, height) |->
        [position |-> PositionOf(k - 1, width), state |-> TRUE, neighbors |-> 0]]

spawn_block_cells(width, height) ==
    [k \in 1..cells_to_spawn_count(width, height) |->
        [position |-> PositionOf(k - 1, width), state |-> TRUE, neighbors |-> 0]]

BeehiveLive == {<<2, 0>>, <<3, 0>>, <<1, 1>>, <<4, 1>>, <<2, 2>>, <<3, 2>>}

spawn_beehive_cells(width, height) ==
    [k \in 1..cells_to_spawn_count(width, height) |->
        [position |-> PositionOf(k - 1, width),
         state |-> PositionOf(k - 1, width) \in BeehiveLive,
         neighbors |-> 0]]

BlinkerLive == {<<1, 0>>, <<1, 1>>, <<1, 2>>}

spawn_blinker_cells(width, height) ==
    [k \in 1..cells_to_spawn_count(width, height) |->
        [position |-> PositionOf(k - 1, width),
         state |-> PositionOf(k - 1, width) \in BlinkerLive,
         neighbors |-> 0]]

\* A pattern seeder that gives every coordinate an arbitrary initial state
\* (the pluggable fill strategy): the live coordinates are the set live.
spawn_fill_cells(width, height, live) ==
    [k \in 1..cells_to_spawn_count(width, height) |->
        [position |-> PositionOf(k - 1, width),
         state |-> PositionOf(k - 1, width) \in live,
         neighbors |-> 0]]

Coords(width, height) == (0..(width - 1)) \X (0..(height - 1))

\* The cells a seed spawns.
SeedCells(s) ==
    CASE s.kind = "cells"   -> spawn_cells(s.width, s.height)
      [] s.kind = "block"   -> spawn_block_cells(s.width, s.height)
      [] s.kind = "beehive" -> spawn_beehive_cells(s.width, s.height)
      [] s.kind = "blinker" -> spawn_blinker_cells(s.width, s.height)
      [] s.kind = "fill"    -> spawn_fill_cells(s.width, s.height, s.live)

\* The Grid resource a seed's run inserts: the spawn dimensions, except in
\* test_blinker, which inserts 6x3 and spawns 3x3.
SeedGrid(s) ==
    IF s.kind = "blinker" THEN [width |-> 6, height |-> 3]
    ELSE [width |-> s.width, height |-> s.height]

\* The grid dimensions of area at most n.
Dims(n) == {d \in (1..n) \X (1..n) : d[1] * d[2] <= n}

\* initialize(width, height, generations): spawn_cells on any grid.
InitializeSeeds(n) ==
    {[kind |-> "cells", width |-> d[1], height |-> d[2], live |-> Coords(d[1], d[2])] :
        d \in Dims(n)}

\* test_block, test_beehive, test_blinker.
TestSeeds ==
    {[kind |-> "block", width |-> 2, height |-> 2, live |-> Coords(2, 2)],
     [kind |-> "beehive", width |-> 6, height |-> 3, live |-> BeehiveLive],
     [kind |-> "blinker", width |-> 3, height |-> 3, live |-> BlinkerLive]}

FillSeeds(n) ==
    UNION {{[kind |-> "fill", width |-> d[1], height |-> d[2], live |-> L] :
                L \in SUBSET Coords(d[1], d[2])} : d \in Dims(n)}

Seeds(n) == InitializeSeeds(n) \cup TestSeeds \cup FillSeeds(n)

----------------------------------------------------------------------------
(* Systems                                                                 *)

\* HashMap::insert
Insert(m, k, v) == [p \in (DOMAIN m) \cup {k} |-> IF p = k THEN v ELSE m[p]]

\* for (pos, state) in query.iter() { map.insert((pos.x, pos.y), state.0) }
RECURSIVE InsertAll(_, _, _)
InsertAll(cs, k, m) ==
    IF k > Len(cs) THEN m
    ELSE \* mk is the map before the k-th insert, evaluated once
         CHOOSE r \in {InsertAll(cs, k + 1, Insert(mk, cs[k].position, cs[k].state)) :
                           mk \in {m}} : TRUE

\* map.clear() followed by the insert loop
RebuiltMap(cs) == InsertAll(cs, 1, <<>>)

\* A probe without the dx == 0 && dy == 0 skip: the cell counts itself.
ProbeCountsSelf(g, m, pos, dx, dy) ==
    LET x == pos[1] + dx
        y == pos[2] + dy
    IN  IF x >= 0 /\ x < g.width /\ y >= 0 /\ y < g.height
        THEN IF <<x, y>> \in DOMAIN m
             THEN IF m[<<x, y>>] THEN 1 ELSE 0
             ELSE 0
        ELSE 0

\* A probe that wraps an off-grid offset around to the opposite edge.
ProbeWraps(g, m, pos, dx, dy) ==
    IF dx = 0 /\ dy = 0 THEN 0
    ELSE LET x == (pos[1] + dx) % g.width
             y == (pos[2] + dy) % g.height
         IN  IF <<x, y>> \in DOMAIN m
             THEN IF m[<<x, y>>] THEN 1 ELSE 0
             ELSE 0

\* One (dx, dy) probe of the count loop: 1 when it does count += 1.
Probe(g, m, pos, dx, dy) ==
    IF dx = 0 /\ dy = 0 THEN 0
    ELSE LET x == pos[1] + dx
             y == pos[2] + dy
         IN  IF x >= 0 /\ x < g.width /\ y >= 0 /\ y < g.height
             THEN IF <<x, y>> \in DOMAIN m
                  THEN IF m[<<x, y>>] THEN 1 ELSE 0
                  ELSE 0
             ELSE 0

\* for dy in -1..=1 { ... }: the count after one column of offsets.
Column(g, m, pos, dx, count) ==
    count + Probe(g, m, pos, dx, -1) + Probe(g, m, pos, dx, 0) + Probe(g, m, pos, dx, 1)

\* The per-cell closure of the count pass, with count reset for every dx.
CountNeighborsResetPerColumn(g, m, pos) == Column(g, m, pos, 1, 0)

\* The per-cell closure of the count pass: count starts at 0 before the dx loop,
\* neighbors.0 = count is written after each column, the last write stands.
CountNeighbors(g, m, pos) ==
    LET c1 == Column(g, m, pos, -1, 0)
        c2 == Column(g, m, pos, 0, c1)
        c3 == Column(g, m, pos, 1, c2)
    IN  c3

\* update_neighbors_brute_force_system over every cell.
UpdatedNeighbors(cs, g, m) ==
    [k \in 1..Len(cs) |-> [cs[k] EXCEPT !.neighbors = CountNeighbors(g, m, cs[k].position)]]

\* The rule with survival on 2 only.
RuleSurviveOnTwoOnly(alive, n) == (alive /\ n = 2) \/ ((~alive) /\ n = 3)

\* The rule with survival on 3 only.
RuleSurviveOnThreeOnly(alive, n) == n = 3

\* match (state.0, neighbors.0): the new state.0.
Rule(alive, n) ==
    CASE alive /\ (n = 2 \/ n = 3) -> alive
      [] (~alive) /\ n = 3         -> TRUE
      [] OTHER                     -> FALSE

\* The loop body without the write of cells_changed.0 = true.
VisitCellFlagNotRaised(w, k) ==
    <<[w[1] EXCEPT ![k].state = Rule(w[1][k].state, w[1][k].neighbors)], w[2]>>

\* The loop body with cells_changed.0 assigned the comparison of every cell.
VisitCellFlagOverwritten(w, k) ==
    <<[w[1] EXCEPT ![k].state = Rule(w[1][k].state, w[1][k].neighbors)],
      Rule(w[1][k].state, w[1][k].neighbors) # w[1][k].state>>

\* The body of the for loop of update_cells_system for the k-th cell of the
\* visiting order: w = <<cells, cells_changed>>.
VisitCell(w, k) ==
    LET previous_state == w[1][k].state
        new_state == Rule(w[1][k].state, w[1][k].neighbors)
    IN  <<[w[1] EXCEPT ![k].state = new_state],
          IF new_state # previous_state THEN TRUE ELSE w[2]>>

\* update_cells_system visiting the cells in the order given by the sequence order.
RECURSIVE UpdateCellsIn(_, _, _)
UpdateCellsIn(order, j, w) ==
    IF j > Len(order) THEN w
    ELSE \* wj is the world before the j-th visit, evaluated once
         CHOOSE r \in {UpdateCellsIn(order, j + 1, VisitCell(wj, order[j])) :
                           wj \in {w}} : TRUE

----------------------------------------------------------------------------
(* The spatial-index counting strategy                                     *)

\* Squared Euclidean distance between two coordinates.
SquaredEuclidean(p, q) ==
    (p[1] - q[1]) * (p[1] - q[1]) + (p[2] - q[2]) * (p[2] - q[2])

\* The query radius: the largest squared distance inside the 3x3 neighbourhood.
SpatialRadius == 2

\* Fixed-radius range query over the index built from the live coordinates.
SpatialWithin(live, p) == {q \in live : SquaredEuclidean(p, q) <= SpatialRadius}

\* query_count of the spatial-index strategy: the candidates inside the
\* 8-neighbour box, without the query point itself.
SpatialQueryCount(live, p) ==
    Cardinality({q \in SpatialWithin(live, p) :
        /\ q # p
        /\ q[1] - p[1] \in {-1, 0, 1}
        /\ q[2] - p[2] \in {-1, 0, 1}})

----------------------------------------------------------------------------

QueryOrder(cs) == [k \in 1..Len(cs) |-> k]

ReverseOrder(cs) == [k \in 1..Len(cs) |-> Len(cs) + 1 - k]

UpdatedCells(cs, changed) == UpdateCellsIn(QueryOrder(cs), 1, <<cs, changed>>)

----------------------------------------------------------------------------
(* The run                                                                 *)

\* An initialization that also rebuilds the map and counts once.
InitWithCountPass ==
    /\ seed \in Seeds(MaxCells)
    /\ generations \in 0..MaxGen
    /\ grid = SeedGrid(seed)
    /\ cell_positions = RebuiltMap(SeedCells(seed))
    /\ cells = UpdatedNeighbors(SeedCells(seed), grid, cell_positions)
    /\ cells_changed = FALSE
    /\ iter = 0
    /\ pc = "loop"
    /\ ran = [rebuild |-> 0, count |-> 0, rule |-> 0]
    /\ tasks = <<>>

\* The world when the loop of initialize (or a test's first schedule.run) starts.
InitFrom(S) ==
    /\ seed \in S
    /\ generations \in 0..MaxGen
    /\ grid = SeedGrid(seed)
    /\ cell_positions = <<>>
    /\ cells_changed = TRUE
    /\ iter = 0
    /\ ran = [rebuild |-> 0, count |-> 0, rule |-> 0]
    /\ tasks = <<>>
    /\ \/ /\ cells = SeedCells(seed)
          /\ pc = "loop"
       \/ \* the multiplication panics in a build with overflow checks
          /\ Overflows(seed.width, seed.height)
          /\ cells = <<>>
          /\ pc = "panicked"

Init == InitFrom(Seeds(MaxCells))

\* Grid dimensions initialize accepts without complaint although they are a
\* zero-area grid or a product beyond u32 (main passes any u32 pair).
InvalidDims == {<<0, 0>>, <<0, 1>>, <<0, 3>>, <<1, 0>>, <<3, 0>>, <<U16, U16>>}

InvalidSeeds ==
    {[kind |-> "cells", width |-> d[1], height |-> d[2], live |-> {}] : d \in InvalidDims}

\* Every configuration initialize can be called with.
AnyInit == InitFrom(Seeds(MaxFairCells) \cup InvalidSeeds)

FairInit == InitFrom(Seeds(MaxFairCells))

\* A loop over 0..=generations.
LoopContinuesInclusive == iter <= generations

\* A loop that also stops once no cell is alive.
LoopContinuesWhileAlive ==
    iter < generations /\ (iter = 0 \/ \E k \in 1..Len(cells) : cells[k].state)

\* for _ in 0..generations
LoopContinues == iter < generations

LoopEnter ==
    /\ pc = "loop"
    /\ LoopContinues
    /\ iter < MaxGen + 1
    /\ pc' = "rebuild1"
    /\ UNCHANGED <<tasks, seed, grid, cells, cell_positions, cells_changed, generations, iter, ran>>

LoopExit ==
    /\ pc = "loop"
    /\ ~LoopContinues
    /\ pc' = "done"
    /\ UNCHANGED <<tasks, seed, grid, cells, cell_positions, cells_changed, generations, iter, ran>>

\* An early return placed after map.clear().
RebuildSkippedAfterClear(from, to) ==
    /\ pc = from
    /\ ~cells_changed
    /\ cell_positions' = <<>>
    /\ pc' = to
    /\ ran' = [ran EXCEPT !.rebuild = @ + 1]
    /\ UNCHANGED <<tasks, seed, grid, cells, cells_changed, generations, iter>>

\* rebuild_cell_positions, as the first (from = "rebuild1") or fourth system.
RebuildSkipped(from, to) ==
    /\ pc = from
    /\ ~cells_changed
    /\ pc' = to
    /\ ran' = [ran EXCEPT !.rebuild = @ + 1]
    /\ UNCHANGED <<tasks, seed, grid, cells, cell_positions, cells_changed, generations, iter>>

\* A rebuild that leaves the flag as it found it.
RebuildDoneFlagKept(from, to) ==
    /\ pc = from
    /\ cells_changed
    /\ cell_positions' = RebuiltMap(cells)
    /\ pc' = to
    /\ ran' = [ran EXCEPT !.rebuild = @ + 1]
    /\ UNCHANGED <<tasks, seed, grid, cells, cells_changed, generations, iter>>

RebuildDone(from, to) ==
    /\ pc = from
    /\ cells_changed
    /\ cell_positions' = RebuiltMap(cells)
    /\ cells_changed' = FALSE
    /\ pc' = to
    /\ ran' = [ran EXCEPT !.rebuild = @ + 1]
    /\ UNCHANGED <<tasks, seed, grid, cells, generations, iter>>

rebuild_cell_positions(from, to) == RebuildSkipped(from, to) \/ RebuildDone(from, to)

\* update_neighbors_brute_force_system, as the second or fifth system.
update_neighbors_brute_force_system(from, to) ==
    /\ pc = from
    /\ cells' = UpdatedNeighbors(cells, grid, cell_positions)
    /\ pc' = to
    /\ ran' = [ran EXCEPT !.count = @ + 1]
    /\ UNCHANGED <<tasks, seed, grid, cell_positions, cells_changed, generations>>

update_cells_system ==
    /\ pc = "rule"
    /\ LET r == UpdatedCells(cells, cells_changed)
       IN  /\ cells' = r[1]
           /\ cells_changed' = r[2]
    /\ pc' = "rebuild2"
    /\ ran' = [ran EXCEPT !.rule = @ + 1]
    /\ UNCHANGED <<tasks, seed, grid, cell_positions, generations, iter>>

Rebuild1 == rebuild_cell_positions("rebuild1", "count1")

\* A schedule whose second system does nothing.
Count1Omitted ==
    /\ pc = "count1"
    /\ pc' = "rule"
    /\ ran' = [ran EXCEPT !.count = @ + 1]
    /\ UNCHANGED <<tasks, seed, grid, cells, cell_positions, cells_changed, generations, iter>>

Count1 == update_neighbors_brute_force_system("count1", "rule") /\ iter' = iter

Rebuild2 == rebuild_cell_positions("rebuild2", "count2")

\* The fifth system ends schedule.run: the loop counts one more iteration.
Count2 == update_neighbors_brute_force_system("count2", "loop") /\ iter' = iter + 1

\* The running count a cell's closure reads: its neighbour's stored count.
TaskCountFromOtherCell(t, cs, k) == IF k > 1 THEN cs[k - 1].neighbors ELSE t[k].count

\* The running count a cell's closure reads: its own local `count`.
TaskCount(t, cs, k) == t[k].count

\* query.par_iter_mut().for_each(...): one closure per cell, each starting with
\* its own count = 0 before its dx loop.
CountFork(from, mid) ==
    /\ pc = from
    /\ tasks' = [k \in 1..Len(cells) |-> [dx |-> -1, count |-> 0]]
    /\ pc' = mid
    /\ ran' = [ran EXCEPT !.count = @ + 1]
    /\ UNCHANGED <<seed, grid, cells, cell_positions, cells_changed, generations, iter>>

\* One iteration of the dx loop of the closure of some cell k, on any worker:
\* the dy loop adds to count and neighbors.0 = count is written.
CountTaskStep(mid) ==
    /\ pc = mid
    /\ \E k \in 1..Len(cells) :
          /\ tasks[k].dx <= 1
          /\ LET c == Column(grid, cell_positions, cells[k].position, tasks[k].dx,
                            TaskCount(tasks, cells, k))
             IN  /\ tasks' = [tasks EXCEPT ![k] = [dx |-> tasks[k].dx + 1, count |-> c]]
                 /\ cells' = [cells EXCEPT ![k].neighbors = c]
    /\ UNCHANGED <<seed, grid, cell_positions, cells_changed, generations, iter, pc, ran>>

\* for_each returns once every closure has finished.
CountJoin(mid, to) ==
    /\ pc = mid
    /\ \A k \in 1..Len(cells) : tasks[k].dx = 2
    /\ tasks' = <<>>
    /\ pc' = to
    /\ UNCHANGED <<seed, grid, cells, cell_positions, cells_changed, generations, ran>>

ParCount1Fork == CountFork("count1", "counting1")

ParCount1Step == CountTaskStep("counting1")

ParCount1Join == CountJoin("counting1", "rule") /\ iter' = iter

ParCount2Fork == CountFork("count2", "counting2")

ParCount2Step == CountTaskStep("counting2")

ParCount2Join == CountJoin("counting2", "loop") /\ iter' = iter + 1

\* The run with the count passes executed closure by closure in any order.
ParNext ==
    \/ LoopEnter
    \/ LoopExit
    \/ Rebuild1
    \/ ParCount1Fork
    \/ ParCount1Step
    \/ ParCount1Join
    \/ update_cells_system
    \/ Rebuild2
    \/ ParCount2Fork
    \/ ParCount2Step
    \/ ParCount2Join

ParInit ==
    /\ InitFrom(InitializeSeeds(MaxParCells) \cup FillSeeds(MaxParCells))
    /\ generations = 1

ParSpec == ParInit /\ [][ParNext]_vars

Next ==
    \/ LoopEnter
    \/ LoopExit
    \/ Rebuild1
    \/ Count1
    \/ update_cells_system
    \/ Rebuild2
    \/ Count2

Spec == Init /\ [][Next]_vars

\* The run is one thread that is never suspended: it keeps taking its next step.
FairSpec == FairInit /\ [][Next]_vars /\ WF_vars(Next)

\* Runs over every configuration, valid or not.
AnySpec == AnyInit /\ [][Next]_vars

----------------------------------------------------------------------------
(* The contract the claims are stated against                              *)

MooreOffsets == ({-1, 0, 1} \X {-1, 0, 1}) \ {<<0, 0>>}

Shift(p, o) == <<p[1] + o[1], p[2] + o[2]>>

InGrid(g, p) == p[1] >= 0 /\ p[1] < g.width /\ p[2] >= 0 /\ p[2] < g.height

LiveAt(cs, p) == \E k \in 1..Len(cs) : cs[k].position = p /\ cs[k].state

\* Number of Moore offsets around p that are inside the grid and hold a live cell.
MooreLiveInGrid(cs, g, p) ==
    Cardinality({o \in MooreOffsets : InGrid(g, Shift(p, o)) /\ LiveAt(cs, Shift(p, o))})

\* Number of live cells adjacent to the k-th cell (horizontally, vertically, diagonally).
LiveMooreNeighbors(cs, k) ==
    Cardinality({j \in 1..Len(cs) :
        /\ j # k
        /\ cs[j].state
        /\ cs[j].position[1] - cs[k].position[1] \in {-1, 0, 1}
        /\ cs[j].position[2] - cs[k].position[2] \in {-1, 0, 1}})

\* The lookup map has exactly one entry per cell, equal to the cell's state.
MapMatches(cs, m) ==
    /\ DOMAIN m = {cs[k].position : k \in 1..Len(cs)}
    /\ \A k \in 1..Len(cs) : m[cs[k].position] = cs[k].state

LiveSet(cs) == {cs[k].position : k \in {j \in 1..Len(cs) : cs[j].state}}

\* A count pass has just run.
AfterCount == pc = "rule" \/ (pc \in {"loop", "done"} /\ iter >= 1)

\* n complete generations have run and the next has not started.
AfterGeneration(n) == pc \in {"loop", "done"} /\ iter = n

----------------------------------------------------------------------------
(* Claims                                                                  *)

\* C1: one rule step sets every cell's alive value to: alive with count 2 or 3
\* stays alive, dead with count exactly 3 becomes alive, everything else is dead;
\* the result depends only on the cell's own pre-step value and count, so visiting
\* the cells in the reverse order gives the same cells and the same flag.
C1_RuleTable ==
    [][pc = "rule" =>
        /\ \A k \in 1..Len(cells) :
              cells'[k].state =
                  (\/ cells[k].state /\ cells[k].neighbors \in {2, 3}
                   \/ (~cells[k].state) /\ cells[k].neighbors = 3)
        /\ UpdateCellsIn(ReverseOrder(cells), 1, <<cells, cells_changed>>)
              = <<cells', cells_changed'>>]_vars

\* A rule step has just run and has flipped a cell; survivors on 2 and on 3 and
\* dead cells with too many and too few neighbours are all present.
C1_Witness ==
    /\ pc = "rebuild2"
    /\ cells_changed
    /\ \E k \in 1..Len(cells) : cells[k].state /\ cells[k].neighbors = 2
    /\ \E k \in 1..Len(cells) : cells[k].state /\ cells[k].neighbors = 3
    /\ \E k \in 1..Len(cells) : (~cells[k].state) /\ cells[k].neighbors >= 4
    /\ \E k \in 1..Len(cells) : (~cells[k].state) /\ cells[k].neighbors = 2

\* C2: after a count pass run on a lookup map that matches the cell states, every
\* cell's neighbor_count is the number of the 8 Moore offsets that are inside the
\* grid and hold a live cell (all 8 offsets, no wraparound).
C2_CountIsMooreCount ==
    (AfterCount /\ MapMatches(cells, cell_positions)) =>
        \A k \in 1..Len(cells) :
            cells[k].neighbors = MooreLiveInGrid(cells, grid, cells[k].position)

\* A count pass has run and some cell has live neighbours in all three columns
\* of offsets, while a border cell has off-grid offsets.
C2_Witness ==
    /\ AfterCount
    /\ MapMatches(cells, cell_positions)
    /\ \E k \in 1..Len(cells) :
          /\ cells[k].neighbors >= 5
          /\ \A dx \in {-1, 0, 1} : Column(grid, cell_positions, cells[k].position, dx, 0) >= 1
    /\ \E k \in 1..Len(cells) : cells[k].position = <<0, 0>> /\ cells[k].neighbors >= 1

\* C3: after the n-th complete generation (n >= 1) every cell's neighbor_count is
\* the number of its live Moore neighbours in the state that generation's rule
\* step committed.
C3_CountsFreshAfterGeneration ==
    (pc \in {"loop", "done"} /\ iter >= 1) =>
        \A k \in 1..Len(cells) : cells[k].neighbors = LiveMooreNeighbors(cells, k)

\* A generation has ended whose state differs from the seed, with nonzero counts.
C3_Witness ==
    /\ pc \in {"loop", "done"}
    /\ iter >= 1
    /\ \E k \in 1..Len(cells) : cells[k].state # SeedCells(seed)[k].state
    /\ \E k \in 1..Len(cells) : cells[k].neighbors >= 1

\* C4: for every live set on a shared grid and every coordinate of the grid, the
\* spatial-index strategy (range query, then the 8-neighbour box without the
\* query point) returns the same count as the dense lookup of the 8 offsets:
\* whenever a count pass is about to run, the index built from the live cells
\* and the lookup map answer alike.
C4_StrategiesAgree ==
    pc \in {"count1", "count2"} =>
        \A p \in Coords(grid.width, grid.height) :
            SpatialQueryCount(LiveSet(cells), p) = CountNeighbors(grid, cell_positions, p)

\* After a rule step and a rebuild: a live query point with a live neighbour
\* and a live cell beyond the radius.
C4_Witness ==
    /\ pc = "count2"
    /\ \E p \in LiveSet(cells) :
          /\ SpatialQueryCount(LiveSet(cells), p) >= 1
          /\ CountNeighbors(grid, cell_positions, p) >= 1
          /\ \E q \in LiveSet(cells) : SquaredEuclidean(p, q) > SpatialRadius

\* C5: on the 2x2 block, after every number n >= 1 of generations all 4 cells
\* are alive and each has neighbor_count 3.
C5_BlockStillLife ==
    (seed.kind = "block" /\ pc \in {"loop", "done"} /\ iter >= 1) =>
        /\ Len(cells) = 4
        /\ \A k \in 1..Len(cells) : cells[k].state /\ cells[k].neighbors = 3

\* The block after at least two generations.
C5_Witness ==
    /\ seed.kind = "block"
    /\ pc \in {"loop", "done"}
    /\ iter >= 2
    /\ Len(cells) = 4

\* C6: the beehive on 6x3: after one generation the live positions are exactly
\* (2,0),(3,0),(1,1),(4,1),(2,2),(3,2) and the counts in row-major order are
\* 1,2,2,2,2,1, 1,2,5,5,2,1, 1,2,2,2,2,1; after a second generation both are unchanged.
C6_BeehiveStillLife ==
    (seed.kind = "beehive" /\ pc \in {"loop", "done"} /\ iter \in {1, 2}) =>
        /\ LiveSet(cells) = {<<2, 0>>, <<3, 0>>, <<1, 1>>, <<4, 1>>, <<2, 2>>, <<3, 2>>}
        /\ [k \in 1..Len(cells) |-> cells[k].neighbors]
              = <<1, 2, 2, 2, 2, 1,  1, 2, 5, 5, 2, 1,  1, 2, 2, 2, 2, 1>>
        /\ \A k \in 1..Len(cells) : cells[k].position = <<(k - 1) % 6, (k - 1) \div 6>>

\* The beehive after its second generation.
C6_Witness ==
    /\ seed.kind = "beehive"
    /\ pc \in {"loop", "done"}
    /\ iter = 2
    /\ Len(cells) = 18

\* C7: the blinker (3x3 cells, vertical bar in column 1): after generation 1 the
\* live set is the horizontal bar of row 1, after generation 2 the vertical bar
\* again, and so on with period 2 from generation 0.
C7_BlinkerPeriodTwo ==
    (seed.kind = "blinker" /\ pc \in {"loop", "done"}) =>
        LiveSet(cells) =
            IF iter % 2 = 0 THEN {<<1, 0>>, <<1, 1>>, <<1, 2>>}
            ELSE {<<0, 1>>, <<1, 1>>, <<2, 1>>}

\* The blinker back at the vertical bar after two generations on the 6x3 bounds.
C7_Witness ==
    /\ seed.kind = "blinker"
    /\ pc \in {"loop", "done"}
    /\ iter = 2
    /\ grid = [width |-> 6, height |-> 3]
    /\ Len(cells) = 9

\* The values one rebuild and one count pass produce from the seeded cells.
SeedCounted(s) == UpdatedNeighbors(SeedCells(s), SeedGrid(s), RebuiltMap(SeedCells(s)))

\* C8 as stated: after a run of 0 generations every cell's (alive, neighbor_count)
\* equals the values produced by initialization followed by one count pass over
\* the seeded state.
C8_Original ==
    (pc = "done" /\ generations = 0) =>
        \A k \in 1..Len(cells) :
            /\ cells[k].state = SeedCounted(seed)[k].state
            /\ cells[k].neighbors = SeedCounted(seed)[k].neighbors

\* C8 amended: after a run of 0 generations every cell's alive value is its
\* seeded value and its neighbor_count is still the initial 0, because no count
\* pass has run; it equals the counted value exactly for the cells that have no
\* live Moore neighbour in the seed.
C8_ZeroGenerationsKeepsInitialCounts ==
    (pc = "done" /\ generations = 0) =>
        \A k \in 1..Len(cells) :
            /\ cells[k].state = SeedCounted(seed)[k].state
            /\ cells[k].neighbors = 0
            /\ (cells[k].neighbors = SeedCounted(seed)[k].neighbors)
                   <=> (LiveMooreNeighbors(SeedCells(seed), k) = 0)

\* A finished run of 0 generations on a seed in which some cell has live neighbours.
C8_Witness ==
    /\ pc = "done"
    /\ generations = 0
    /\ \E k \in 1..Len(cells) : SeedCounted(seed)[k].neighbors >= 1

\* C9: a run with generations = 0 executes no pipeline stage: the cells
\* (position, alive, neighbor_count), the lookup map and the change flag are as
\* they were right after seeding.
C9_ZeroGenerationsTouchNothing ==
    (pc = "done" /\ generations = 0) =>
        /\ cells = SeedCells(seed)
        /\ cell_positions = <<>>
        /\ DOMAIN cell_positions = {}
        /\ cells_changed = TRUE
        /\ ran = [rebuild |-> 0, count |-> 0, rule |-> 0]
    /\ tasks = <<>>

\* A finished run of 0 generations over a seed with live cells.
C9_Witness ==
    /\ pc = "done"
    /\ generations = 0
    /\ iter = 0
    /\ LiveSet(cells) # {}
    /\ Len(cells) >= 4

\* C10: for every generations value g and every seed the run executes the
\* five-stage pipeline exactly g times and then reaches Done: it does not stop
\* early on a stable or extinct state, runs no extra iteration, and terminates.
C10_RunsExactlyGenerationsThenDone ==
    /\ [](pc = "done" =>
            /\ iter = generations
            /\ ran = [rebuild |-> 2 * generations, count |-> 2 * generations,
                      rule |-> generations])
    /\ [](ran.rule <= generations)
    /\ <>[](pc = "done")

\* A run of at least two generations over a seed with no live cell has finished.
C10_Witness ==
    /\ pc = "done"
    /\ generations >= 2
    /\ seed.live = {}
    /\ ran.rule = generations

\* The configuration is a zero-area grid or its cell count does not fit u32.
InvalidConfiguration(s) == s.width = 0 \/ s.height = 0 \/ Overflows(s.width, s.height)

\* C11: invalid configurations (a zero-area grid, or width * height beyond the
\* representable cell count) are rejected at construction: no run exists over
\* an empty or truncated cell store.
C11_InvalidConfigurationRejected ==
    InvalidConfiguration(seed) => pc = "panicked"

\* n is exactly the product width * height.
IsProduct(n, width, height) == U32Product(width, height) = <<0, n \div U16, n % U16>>

\* C12: after creation and in every reachable state of a run on a width x height
\* grid the cell store holds exactly width*height cells, the i-th cell (from 0)
\* has position (i mod width, i div width), every coordinate of
\* [0,width) x [0,height) is held by exactly one cell, and no stage adds,
\* removes or moves a cell.
C12_OneCellPerCoordinate ==
    pc # "panicked" =>
        /\ IsProduct(Len(cells), seed.width, seed.height)
        /\ \A k \in 1..Len(cells) :
              cells[k].position = <<(k - 1) % seed.width, (k - 1) \div seed.width>>
        /\ \A c \in Coords(seed.width, seed.height) :
              Cardinality({k \in 1..Len(cells) : cells[k].position = c}) = 1

\* C13: in every reachable state every cell's neighbor_count is between 0 and 8.
C13_CountInRange ==
    \A k \in 1..Len(cells) : cells[k].neighbors \in 0..8

\* A count pass has given some cell the count 8 and a corner cell the count 3.
C13_Witness ==
    /\ AfterCount
    /\ \E k \in 1..Len(cells) : cells[k].neighbors = 8
    /\ \E k \in 1..Len(cells) : cells[k].neighbors = 3

\* Number of Moore-neighbour coordinates of p that lie inside the grid.
InGridNeighbours(g, p) == Cardinality({o \in MooreOffsets : InGrid(g, Shift(p, o))})

\* C14: after every count pass the cell at (0,0) has neighbor_count at most 3,
\* and no cell's neighbor_count exceeds the number of its Moore-neighbour
\* coordinates inside the grid.
C14_CountBoundedByInGridNeighbours ==
    AfterCount =>
        \A k \in 1..Len(cells) :
            /\ cells[k].neighbors <= InGridNeighbours(grid, cells[k].position)
            /\ cells[k].position = <<0, 0>> => cells[k].neighbors <= 3

\* After a count pass the corner (0,0) has all 3 of its in-grid neighbours alive
\* and a border cell all 5 of its.
C14_Witness ==
    /\ AfterCount
    /\ \E k \in 1..Len(cells) : cells[k].position = <<0, 0>> /\ cells[k].neighbors = 3
    /\ \E k \in 1..Len(cells) :
          /\ cells[k].neighbors = 5
          /\ InGridNeighbours(grid, cells[k].position) = 5

\* Some cell's alive value differs between the cell sequences a and b.
Flipped(a, b) == \E k \in 1..Len(a) : a[k].state # b[k].state

\* C15: after a rule step the change flag is true if some cell's alive value
\* differs from before the step; if none differs the flag keeps the value it had
\* before the step, also when that value is true (the step never clears it).
C15_FlagRaisedOnFlipNeverCleared ==
    [][pc = "rule" =>
        /\ cells_changed' = (cells_changed \/ Flipped(cells, cells'))
        /\ \A c \in BOOLEAN :
              UpdatedCells(cells, c)[2] = (c \/ Flipped(cells, UpdatedCells(cells, c)[1]))]_vars

\* The first rule step of a run has flipped the first cell and left the last
\* cell as it was seeded.
C15_Witness ==
    /\ pc = "rebuild2"
    /\ iter = 0
    /\ cells_changed
    /\ Len(cells) >= 2
    /\ cells[1].state # SeedCells(seed)[1].state
    /\ cells[Len(cells)].state = SeedCells(seed)[Len(cells)].state

\* A count pass is in flight.
Counting == pc \in {"counting1", "counting2"}

\* C16: the parallel count pass gives every cell the neighbor_count a sequential
\* pass gives, under every interleaving of the per-cell tasks (hence every
\* partition among workers): when all tasks have finished the cells are those
\* of the sequential pass, and each task step writes only its own cell's
\* neighbor_count and leaves the map, the grid and the flag alone.
C16_ParallelCountIsSequentialCount ==
    /\ []((Counting /\ \A k \in 1..Len(cells) : tasks[k].dx = 2) =>
            cells = UpdatedNeighbors(cells, grid, cell_positions))
    /\ [][Counting /\ Counting' =>
            /\ Cardinality({k \in 1..Len(cells) : cells'[k] # cells[k]}) <= 1
            /\ \A k \in 1..Len(cells) :
                  /\ cells'[k].position = cells[k].position
                  /\ cells'[k].state = cells[k].state
                  /\ cells'[k] # cells[k] => tasks'[k] # tasks[k]
            /\ cell_positions' = cell_positions
            /\ grid' = grid
            /\ cells_changed' = cells_changed]_vars

\* All tasks of the second pass over at least 3 cells have finished and the
\* counts they wrote are not all equal.
C16_Witness ==
    /\ pc = "counting2"
    /\ Len(cells) >= 3
    /\ \A k \in 1..Len(cells) : tasks[k].dx = 2
    /\ \E j, k \in 1..Len(cells) : cells[j].neighbors # cells[k].neighbors

\* C17: at the moment the rule step reads the neighbor counts, every cell's
\* neighbor_count equals the number of its live in-grid Moore neighbours in the
\* cells the step is about to update; this includes the generations whose
\* first rebuild was skipped because the flag was false.
C17_RuleReadsFreshCounts ==
    pc = "rule" => \A k \in 1..Len(cells) : cells[k].neighbors = LiveMooreNeighbors(cells, k)

\* The rule step of the second generation is about to run after a generation
\* that flipped a cell, with live cells left to count.
C17_Witness ==
    /\ pc = "rule"
    /\ iter = 1
    /\ LiveSet(cells) # LiveSet(SeedCells(seed))
    /\ \E k \in 1..Len(cells) : cells[k].neighbors >= 2

\* C20: whenever cells_changed is false, the lookup map has an entry for every
\* cell's position and that entry equals the cell's current alive value.
C20_CleanFlagMeansExactMap ==
    ~cells_changed => MapMatches(cells, cell_positions)

\* The flag is false when the first rebuild of a later generation has been
\* skipped, over cells of both alive values that are no longer the seed's.
C20_Witness ==
    /\ ~cells_changed
    /\ pc = "count1"
    /\ iter >= 1
    /\ LiveSet(cells) # LiveSet(SeedCells(seed))
    /\ \E j, k \in 1..Len(cells) : cells[j].state /\ ~cells[k].state

\* The cells agree on the given field before and after a step.
SameField(a, b, f) == Len(a) = Len(b) /\ \A k \in 1..Len(a) : a[k][f] = b[k][f]

\* C19: each stage changes only what it owns: the rule step leaves every
\* position, every neighbor_count and the lookup map unchanged; the count pass
\* leaves alive values, positions, the lookup map and the change flag unchanged;
\* the rebuild stage leaves the cells unchanged, and with the change flag false
\* it changes neither the lookup map nor the flag. No stage changes the grid.
C19_StagesChangeOnlyWhatTheyOwn ==
    [][/\ grid' = grid
       /\ pc = "rule" =>
            /\ SameField(cells, cells', "position")
            /\ SameField(cells, cells', "neighbors")
            /\ cell_positions' = cell_positions
       /\ pc \in {"count1", "count2"} =>
            /\ SameField(cells, cells', "state")
            /\ SameField(cells, cells', "position")
            /\ cell_positions' = cell_positions
            /\ cells_changed' = cells_changed
       /\ pc \in {"rebuild1", "rebuild2"} =>
            /\ cells' = cells
            /\ ~cells_changed =>
                  /\ cell_positions' = cell_positions
                  /\ cells_changed' = cells_changed]_vars

\* The count pass is about to run on a map that a skipped rebuild left in place,
\* after a rule step that flipped a cell and a count pass that stored a count.
C19_Witness ==
    /\ pc = "count1"
    /\ iter >= 1
    /\ ~cells_changed
    /\ cell_positions # <<>>
    /\ LiveSet(cells) # LiveSet(SeedCells(seed))
    /\ \E k \in 1..Len(cells) : cells[k].neighbors >= 1

\* One generation of the pipeline without its trailing rebuild and count pass,
\* on a world w = <<cells, lookup map, change flag>>: rebuild, count, rule step.
ShortGeneration(w, g) ==
    LET m       == IF w[3] THEN RebuiltMap(w[1]) ELSE w[2]
        counted == UpdatedNeighbors(w[1], g, m)
        updated == UpdatedCells(counted, FALSE)
    IN  <<updated[1], m, updated[2]>>

RECURSIVE ShortRun(_, _)
\* The world after n generations of the three-stage pipeline from seed s.
ShortRun(s, n) ==
    IF n = 0
    THEN <<SeedCells(s), <<>>, TRUE>>
    ELSE CHOOSE r \in {ShortGeneration(w, SeedGrid(s)) : w \in {ShortRun(s, n - 1)}} : TRUE

\* C18: after every generation n of every seed, every cell's alive value in the
\* five-stage run equals its alive value after n generations of the pipeline
\* that runs only rebuild, count and rule step.
C18_TrailingStagesDoNotChangeAliveValues ==
    pc \in {"loop", "done"} =>
        \A short \in {ShortRun(seed, iter)[1]} :
            /\ SameField(cells, short, "state")
            /\ SameField(cells, short, "position")

\* Two generations have run, the second one flipped a cell, and the cached
\* count of some cell differs between the two pipelines.
C18_Witness ==
    /\ pc = "loop"
    /\ iter = 2
    /\ LiveSet(cells) # LiveSet(ShortRun(seed, 1)[1])
    /\ LiveSet(cells) # {}
    /\ \E k \in 1..Len(cells) : cells[k].neighbors # ShortRun(seed, 2)[1][k].neighbors

\* The step is a rebuild stage that clears and refills the lookup map.
RebuildPerformed ==
    /\ pc \in {"rebuild1", "rebuild2"}
    /\ cell_positions' = RebuiltMap(cells)
    /\ cell_positions' # cell_positions

\* The step is a rebuild stage that returns without touching the lookup map.
RebuildNotPerformed ==
    /\ pc \in {"rebuild1", "rebuild2"}
    /\ cell_positions' = cell_positions

\* C21: the change flag is true when the run starts, and stage 1 of the first
\* generation performs a full rebuild; the flag is false at the end of every
\* complete generation, so stage 1 of every later generation performs no
\* rebuild; the rule step starts with the flag false and leaves it true exactly
\* when it flipped a cell, and stage 4 performs a rebuild exactly then.
C21_FlagDrivesRebuilds ==
    /\ []((pc = "loop" /\ iter = 0) => cells_changed)
    /\ []((pc \in {"loop", "done"} /\ iter >= 1) => ~cells_changed)
    /\ [](pc = "rule" => ~cells_changed)
    /\ [][/\ (pc = "rebuild1" /\ iter = 0) => RebuildPerformed
          /\ (pc = "rebuild1" /\ iter >= 1) => RebuildNotPerformed
          /\ pc = "rule" => cells_changed' = Flipped(cells, cells')
          /\ (pc = "rebuild2" /\ cells_changed) => RebuildPerformed
          /\ (pc = "rebuild2" /\ ~cells_changed) => RebuildNotPerformed
          /\ pc \in {"rebuild1", "rebuild2"} => ~cells_changed']_vars

\* Stage 4 of the second generation has just rebuilt the map: stage 1 of that
\* generation was skipped and its rule step flipped a cell.
C21_Witness ==
    /\ pc = "count2"
    /\ iter = 1
    /\ ~cells_changed
    /\ MapMatches(cells, cell_positions)
    /\ LiveSet(cells) # LiveSet(ShortRun(seed, 1)[1])

\* Stage 4 of the second generation has just returned without a rebuild: the
\* rule step of that generation flipped nothing, over a grid with live cells.
C21_WitnessNoFlip ==
    /\ pc = "count2"
    /\ iter = 1
    /\ ~cells_changed
    /\ LiveSet(cells) # {}
    /\ LiveSet(cells) = LiveSet(ShortRun(seed, 1)[1])

====
